---- MODULE Spec2Model ----
(***************************************************************************)
(* Model of setup.py: the project scaffolder.                              *)
(*                                                                         *)
(* The script creates a fixed list of directories under the current        *)
(* working directory with os.makedirs(full_path, exist_ok=True), printing  *)
(* one line per entry, and then runs `npm install` with check=True,        *)
(* turning a CalledProcessError into exit(1).                              *)
(*                                                                         *)
(* A path is the sequence of its components relative to the working        *)
(* directory (the empty sequence is the working directory itself), so      *)
(* os.path.split is Front/Last on sequences.  The filesystem maps each     *)
(* path to "none", "dir" (a directory), "rodir" (a directory the process   *)
(* may not write into) or "file" (a regular file).                         *)
(* A directory made by mkdir has mode 0o777 less the umask: "dir", or       *)
(* "rodir" when the umask takes the owner's write permission away.          *)
(***************************************************************************)
EXTENDS Integers, Sequences, FiniteSets, TLC

VARIABLES
    fs,           \* the filesystem under the working directory
    umask,        \* what the process's umask makes of a new directory: "dir" or "rodir"
    fsStart,      \* the filesystem when the current run started (history)
    order,        \* the directory list the loop iterates over
    pc,           \* position of the script
    i,            \* index of the next list entry (1-based)
    out,          \* lines printed so far by the current run
    raised,       \* exception that ended the run with a traceback, or "none"
    rc,           \* the installer's exit status, or NoStatus while it has none
    installCalls, \* times subprocess.run was called in the current run
    exitStatus,   \* exit status of the script, or NoStatus while running
    run,          \* number of the current run of the script
    prevCreated   \* whether the previous run completed its creation loop (history)

vars == <<fs, umask, fsStart, order, pc, i, out, raised, rc, installCalls, exitStatus, run, prevCreated>>

(***************************************************************************)
(* Bounds of the model.                                                    *)
(***************************************************************************)
MaxPre == 1      \* entries that differ from an empty tree before the first run
MaxRuns == 2     \* times the script is run against the same directory
MaxStride == 3   \* permutations of the list tried besides its reversal

\* rc and exitStatus before the process concerned has exited.
NoStatus == 0 - 1

(***************************************************************************)
(* The directory list, setup.py lines 5-22, each entry split at '/'.       *)
(***************************************************************************)
dirs ==
    << <<"src", "app", "api", "ai", "chat">>,
       <<"src", "app", "api", "ai", "generate">>,
       <<"src", "app", "api", "ai", "summarize">>,
       <<"src", "app", "blog", "[slug]">>,
       <<"src", "components", "ui">>,
       <<"src", "components", "blog">>,
       <<"src", "components", "ai">>,
       <<"src", "lib", "firebase">>,
       <<"src", "lib", "openai">>,
       <<"src", "types">>,
       <<"src", "utils">>,
       <<"content", "posts">>,
       <<"tests", "unit">>,
       <<"tests", "e2e">>,
       <<".github", "workflows">>,
       <<"public", "images">> >>

NumDirs == Len(dirs)

Front(p) == SubSeq(p, 1, Len(p) - 1)

Prefixes(p) == { SubSeq(p, 1, k) : k \in 0..Len(p) }

IsPrefix(p, q) == Len(p) <= Len(q) /\ SubSeq(q, 1, Len(p)) = p

\* The working directory, where os.path.join(os.getcwd(), dir_path) is rooted.
Cwd == << >>

\* Where `npm install` puts what it installs.
NodeModules == <<"node_modules">>

\* Every path the model tracks.
Nodes == UNION { Prefixes(dirs[k]) : k \in 1..NumDirs } \cup {NodeModules}

IsDirKind(k) == k \in {"dir", "rodir"}

\* os.path.exists / os.path.isdir on the modelled tree.
exists(f, p) == f[p] # "none"

\* Mutant of isdir: os.path.exists in its place.
isdir_exists(f, p) == f[p] # "none"

isdir(f, p) == IsDirKind(f[p])

NoError == "none"

\* The subclasses of OSError that mkdir raises; the spec's FilesystemError.
OSErrors == {"FileNotFoundError", "NotADirectoryError", "FileExistsError", "PermissionError"}

\* Mutant of mkdir: a regular file in the way is replaced by the directory.
mkdir_clobber(f, p, mode) ==
    IF p = Cwd THEN [fs |-> f, err |-> "FileExistsError"]
    ELSE IF f[Front(p)] = "none" THEN [fs |-> f, err |-> "FileNotFoundError"]
    ELSE IF f[Front(p)] = "file" THEN [fs |-> f, err |-> "NotADirectoryError"]
    ELSE IF f[p] = "file" THEN [fs |-> [f EXCEPT ![p] = mode], err |-> NoError]
    ELSE IF f[p] # "none" THEN [fs |-> f, err |-> "FileExistsError"]
    ELSE IF f[Front(p)] = "rodir" THEN [fs |-> f, err |-> "PermissionError"]
    ELSE [fs |-> [f EXCEPT ![p] = mode], err |-> NoError]

(***************************************************************************)
(* os.mkdir(p): one mkdir(2) call.  The result is the new tree and the     *)
(* error raised; mode is the kind of directory the umask leaves.           *)
(***************************************************************************)
mkdir(f, p, mode) ==
    IF p = Cwd THEN [fs |-> f, err |-> "FileExistsError"]
    ELSE IF f[Front(p)] = "none" THEN [fs |-> f, err |-> "FileNotFoundError"]
    ELSE IF f[Front(p)] = "file" THEN [fs |-> f, err |-> "NotADirectoryError"]
    ELSE IF f[p] # "none" THEN [fs |-> f, err |-> "FileExistsError"]
    ELSE IF f[Front(p)] = "rodir" THEN [fs |-> f, err |-> "PermissionError"]
    ELSE [fs |-> [f EXCEPT ![p] = mode], err |-> NoError]

(***************************************************************************)
(* os.makedirs(name, mode, exist_ok): create the missing ancestors first         *)
(* (ignoring a FileExistsError from that recursion), then mkdir the leaf;  *)
(* an OSError from the leaf's mkdir is dropped only when exist_ok is set   *)
(* and the leaf is a directory.                                            *)
(***************************************************************************)
RECURSIVE makedirs(_, _, _, _)

\* Mutant of makedirs: returns once the missing ancestors are created,
\* without creating the leaf.
makedirs_return_after_ancestors(f, name, mode, exist_ok) ==
    IF name # Cwd /\ ~exists(f, Front(name))
    THEN makedirs(f, Front(name), mode, exist_ok)
    ELSE LET r == mkdir(f, name, mode)
         IN  IF r.err = NoError THEN r
             ELSE IF exist_ok /\ isdir(f, name)
                  THEN [fs |-> f, err |-> NoError]
                  ELSE r

makedirs(f, name, mode, exist_ok) ==
    LET head == Front(name)
        up == IF name # Cwd /\ ~exists(f, head)
              THEN makedirs(f, head, mode, exist_ok)
              ELSE [fs |-> f, err |-> NoError]
    IN  IF up.err \notin {NoError, "FileExistsError"} THEN up
        ELSE LET r == mkdir(up.fs, name, mode)
             IN  IF r.err = NoError THEN r
                 ELSE IF exist_ok /\ isdir(up.fs, name)
                      THEN [fs |-> up.fs, err |-> NoError]
                      ELSE r

\* Mutant of ensure_dir: exist_ok left at its default.
ensure_dir_strict(f, d, mode) == makedirs(f, d, mode, FALSE)

\* Mutant of ensure_dir: the parent of the path is created, not the path.
ensure_dir_parent(f, d, mode) == makedirs(f, Front(d), mode, TRUE)

\* setup.py lines 26-27: os.makedirs(full_path, exist_ok=True), the mode left
\* at its default and cut by the umask.
ensure_dir(f, d, mode) == makedirs(f, d, mode, TRUE)

(***************************************************************************)
(* setup.py lines 25-28 as a function of the tree and the list: the tree   *)
(* after the loop over ds, or the tree and the error at the first entry    *)
(* whose creation fails.                                                   *)
(***************************************************************************)
RECURSIVE ensure_structure(_, _, _)
ensure_structure(f, ds, mode) ==
    IF ds = << >> THEN [fs |-> f, err |-> NoError]
    ELSE LET r == ensure_dir(f, Head(ds), mode)
         IN  IF r.err = NoError THEN ensure_structure(r.fs, Tail(ds), mode) ELSE r

(***************************************************************************)
(* The lines the script prints.                                            *)
(***************************************************************************)
Line(kind) == [kind |-> kind, path |-> Cwd]

Created(d) == [kind |-> "Created", path |-> d]

\* exit(1) in the except clause, and the status of an uncaught exception.
ExitFailure == 1

ExitSuccess == 0

\* Mutant of InstallErrorStatus: the installer's status is passed on.
InstallErrorStatusPassedOn(code) == code

\* setup.py lines 36-38: the status the script exits with when the installer
\* ended with a nonzero status.
InstallErrorStatus(code) == ExitFailure

\* Exit statuses the installer may end with.
InstallerCodes == {0, 1, 2}

(***************************************************************************)
(* Initial trees: an otherwise empty working directory in which up to      *)
(* MaxPre paths already exist as a directory, a read-only directory or a   *)
(* regular file, with their ancestors as directories.                      *)
(***************************************************************************)
PreKinds == {"dir", "rodir", "file"}

\* The kinds of directory a umask can leave of mode 0o777.
NewDirKinds == {"dir", "rodir"}

NoNode == <<"-">>

PreTree(ns, ks) ==
    [n \in Nodes |->
        IF \E j \in DOMAIN ns : ns[j] = n
        THEN ks[CHOOSE j \in DOMAIN ns : ns[j] = n /\ \A l \in DOMAIN ns : ns[l] = n => j <= l]
        ELSE IF n = Cwd \/ \E j \in DOMAIN ns : ns[j] # NoNode /\ IsPrefix(n, ns[j])
             THEN "dir"
             ELSE "none"]

\* What every tree satisfies: the root is a directory and whatever exists
\* lies in a directory.
WellFormed(f) ==
    /\ IsDirKind(f[Cwd])
    /\ \A n \in Nodes \ {Cwd} : f[n] # "none" => IsDirKind(f[Front(n)])

InitTrees ==
    { t \in { PreTree(ns, ks) : ns \in [1..MaxPre -> Nodes \cup {NoNode}],
                                ks \in [1..MaxPre -> PreKinds] } : WellFormed(t) }

InitWith(o) ==
    /\ fs \in InitTrees
    /\ umask \in NewDirKinds
    /\ fsStart = fs
    /\ order = o
    /\ pc = "start"
    /\ i = 1
    /\ out = << >>
    /\ raised = NoError
    /\ rc = NoStatus
    /\ installCalls = 0
    /\ exitStatus = NoStatus
    /\ run = 1
    /\ prevCreated = FALSE

Init == InitWith(dirs)

(***************************************************************************)
(* setup.py line 24: the banner.                                           *)
(***************************************************************************)
Begin ==
    /\ pc = "start"
    /\ out' = Append(out, Line("Creating"))
    /\ pc' = "loop"
    /\ UNCHANGED <<fs, umask, fsStart, order, i, raised, rc, installCalls, exitStatus, run, prevCreated>>

\* Mutant of CreateDir: the line is printed before the directory is created.
CreateDirPrintFirst ==
    /\ pc = "loop"
    /\ i <= Len(order)
    /\ out' = Append(out, Created(order[i]))
    /\ LET r == ensure_dir(fs, order[i], umask)
       IN  /\ fs' = r.fs
           /\ IF r.err = NoError
              THEN /\ i' = i + 1
                   /\ UNCHANGED <<pc, raised, exitStatus>>
              ELSE /\ raised' = r.err
                   /\ pc' = "aborted"
                   /\ exitStatus' = ExitFailure
                   /\ UNCHANGED i
    /\ UNCHANGED <<umask, fsStart, order, rc, installCalls, run, prevCreated>>

\* Mutant of CreateDir: an OSError is caught and the loop goes on.
CreateDirCatchAndContinue ==
    /\ pc = "loop"
    /\ i <= Len(order)
    /\ LET r == ensure_dir(fs, order[i], umask)
       IN  /\ fs' = r.fs
           /\ i' = i + 1
           /\ out' = IF r.err = NoError THEN Append(out, Created(order[i])) ELSE out
    /\ UNCHANGED <<pc, raised, exitStatus, umask, fsStart, order, rc, installCalls, run, prevCreated>>

(***************************************************************************)
(* setup.py lines 25-28: one iteration of the loop.  An OSError from       *)
(* os.makedirs is caught nowhere: the interpreter prints the traceback     *)
(* and exits with status 1.                                                *)
(***************************************************************************)
CreateDir ==
    /\ pc = "loop"
    /\ i <= Len(order)
    /\ LET r == ensure_dir(fs, order[i], umask)
       IN  /\ fs' = r.fs
           /\ IF r.err = NoError
              THEN /\ out' = Append(out, Created(order[i]))
                   /\ i' = i + 1
                   /\ UNCHANGED <<pc, raised, exitStatus>>
              ELSE /\ raised' = r.err
                   /\ pc' = "aborted"
                   /\ exitStatus' = ExitFailure
                   /\ UNCHANGED <<out, i>>
    /\ UNCHANGED <<umask, fsStart, order, rc, installCalls, run, prevCreated>>

\* Mutant of StructureCreated: the loop is left one entry early.
StructureCreatedEarly ==
    /\ pc = "loop"
    /\ i >= Len(order)
    /\ out' = out \o <<Line("StructureCreated"), Line("Installing")>>
    /\ pc' = "install"
    /\ UNCHANGED <<fs, umask, fsStart, order, i, raised, rc, installCalls, exitStatus, run, prevCreated>>

(***************************************************************************)
(* setup.py lines 30-31: the loop is over.                                 *)
(***************************************************************************)
StructureCreated ==
    /\ pc = "loop"
    /\ i > Len(order)
    /\ out' = out \o <<Line("StructureCreated"), Line("Installing")>>
    /\ pc' = "install"
    /\ UNCHANGED <<fs, umask, fsStart, order, i, raised, rc, installCalls, exitStatus, run, prevCreated>>

\* What the installer may leave behind: it installs into node_modules and
\* touches nothing of the skeleton.
InstallerEffects(f) ==
    IF f[NodeModules] = "none" /\ f[Cwd] = "dir"
    THEN {f, [f EXCEPT ![NodeModules] = "dir"], [f EXCEPT ![NodeModules] = "rodir"]}
    ELSE {f}

(***************************************************************************)
(* setup.py lines 33-38: subprocess.run(['npm', 'install'], check=True)    *)
(* with the installer exiting with status code.                            *)
(***************************************************************************)
InstallExits(code) ==
    /\ pc = "install"
    /\ installCalls' = installCalls + 1
    /\ rc' = code
    /\ fs' \in InstallerEffects(fs)
    /\ IF code = 0
       THEN /\ out' = Append(out, Line("Complete"))
            /\ exitStatus' = ExitSuccess
            /\ pc' = "done"
       ELSE /\ out' = Append(out, Line("ErrorInstalling"))
            /\ exitStatus' = InstallErrorStatus(code)
            /\ pc' = "exited"
    /\ UNCHANGED <<umask, fsStart, order, i, raised, run, prevCreated>>

(***************************************************************************)
(* setup.py line 34 when the installer cannot be started (npm is not on    *)
(* the PATH, or is not executable): subprocess.run raises an OSError,      *)
(* which `except subprocess.CalledProcessError` does not catch.            *)
(***************************************************************************)
InstallCannotStart ==
    /\ pc = "install"
    /\ installCalls' = installCalls + 1
    /\ \E e \in {"FileNotFoundError", "PermissionError"} : raised' = e
    /\ exitStatus' = ExitFailure
    /\ pc' = "aborted"
    /\ UNCHANGED <<fs, umask, fsStart, order, i, out, rc, run, prevCreated>>

Terminated == pc \in {"done", "exited", "aborted"}

(***************************************************************************)
(* The script is run again in the same working directory.                  *)
(***************************************************************************)
Rerun ==
    /\ Terminated
    /\ run < MaxRuns
    /\ run' = run + 1
    /\ prevCreated' = (i > Len(order))
    /\ fsStart' = fs
    /\ pc' = "start"
    /\ i' = 1
    /\ out' = << >>
    /\ raised' = NoError
    /\ rc' = NoStatus
    /\ installCalls' = 0
    /\ exitStatus' = NoStatus
    /\ UNCHANGED <<fs, umask, order>>

Next ==
    \/ Begin
    \/ CreateDir
    \/ StructureCreated
    \/ \E code \in InstallerCodes : InstallExits(code)
    \/ InstallCannotStart
    \/ Rerun

Spec == Init /\ [][Next]_vars

(***************************************************************************)
(* Specification in which the loop iterates over a permutation of the      *)
(* list: entry k of Stride(s) is entry (k * s) mod (NumDirs + 1) of dirs,  *)
(* a permutation because NumDirs + 1 is prime; the stride NumDirs is the   *)
(* reversed list.                                                          *)
(***************************************************************************)
Stride(s) == [k \in 1..NumDirs |-> dirs[(k * s) % (NumDirs + 1)]]

Orders == { Stride(s) : s \in (1..MaxStride) \cup {NumDirs} }

InitPerm == \E o \in Orders : InitWith(o)

SpecPerm == InitPerm /\ [][Next]_vars

(***************************************************************************)
(* Vocabulary of the properties.                                           *)
(***************************************************************************)
\* The list entries and their ancestors below the working directory.
Skeleton == UNION { Prefixes(dirs[k]) : k \in 1..NumDirs } \ {Cwd}

\* The run was ended by an exception raised in the creation loop.
CreationFailed == pc = "aborted" /\ installCalls = 0

\* The creation loop ran to its end.
CreationDone == pc \in {"install", "done", "exited"} \/ (pc = "aborted" /\ installCalls > 0)

\* The tree f0 with the entries ds and their ancestors added as directories
\* of the given kind.
WithDirs(f0, ds, kind) ==
    [n \in Nodes |->
        IF f0[n] # "none" THEN f0[n]
        ELSE IF \E d \in ds : IsPrefix(n, d) THEN kind
        ELSE "none"]

EmptyTree(f) == \A n \in Nodes \ {Cwd} : f[n] = "none"

(***************************************************************************)
(* C1 (completeness): when a run ends with exit status 0 - the creation    *)
(* loop and the installer both succeeded - every one of the 16 list        *)
(* entries, and every ancestor of it, is a directory.                      *)
(***************************************************************************)
Completeness ==
    (pc = "done" /\ exitStatus = ExitSuccess) =>
        \A k \in 1..NumDirs : \A a \in Prefixes(dirs[k]) : fs[a] \in {"dir", "rodir"}

\* A successful first run that had to create the deepest entry from nothing.
CompletenessWitness ==
    /\ pc = "done"
    /\ run = 1
    /\ fsStart[<<"src">>] = "none"
    /\ fs[dirs[1]] = "dir"

(***************************************************************************)
(* C2 (idempotence): a run that follows a run whose creation loop          *)
(* succeeded raises no error in its own creation loop and leaves the tree  *)
(* exactly as it found it, up to the moment the installer is started; and  *)
(* in any run, the entry at which the creation loop failed is not an       *)
(* existing directory.                                                     *)
(***************************************************************************)
Idempotence ==
    /\ (run > 1 /\ prevCreated) =>
          /\ ~CreationFailed
          /\ installCalls = 0 => fs = fsStart
    /\ CreationFailed => fs[order[i]] \notin {"dir", "rodir"}

\* A second run, after a first one that created the tree, reaches the installer.
IdempotenceWitness ==
    /\ run = 2
    /\ prevCreated
    /\ pc = "install"
    /\ fs = fsStart
    /\ \A n \in Skeleton : fs[n] = "dir"

(***************************************************************************)
(* C3 (collision failure): when the run starts with a regular file at a    *)
(* component of a list entry, the creation loop never completes and the    *)
(* installer is never started; once the run has terminated it has done so  *)
(* with an OSError and a nonzero status; the file is unchanged and         *)
(* nothing exists below it.                                                *)
(***************************************************************************)
CollisionFailure ==
    \A n \in Skeleton :
        fsStart[n] = "file" =>
            /\ ~CreationDone
            /\ ~(pc = "loop" /\ i > Len(order))
            /\ installCalls = 0
            /\ Terminated => (raised \in OSErrors /\ exitStatus # ExitSuccess /\ exitStatus # NoStatus)
            /\ fs[n] = "file"
            /\ \A m \in Nodes : (IsPrefix(n, m) /\ m # n) => fs[m] = "none"

\* A run aborted at a file named tests, after the entries before it were created.
CollisionFailureWitness ==
    /\ fsStart[<<"tests">>] = "file"
    /\ pc = "aborted"
    /\ raised = "NotADirectoryError"
    /\ order[i] = <<"tests", "unit">>
    /\ fs[<<"content", "posts">>] = "dir"

(***************************************************************************)
(* C4 (failure propagation): once the installer has exited with a nonzero  *)
(* status, the script has exited with status 1, subprocess.run was called  *)
(* exactly once, every entry of the skeleton is a directory and            *)
(* everything that existed when the run started is still what it was.      *)
(***************************************************************************)
FailurePropagation ==
    (rc # NoStatus /\ rc # 0) =>
        /\ pc = "exited"
        /\ exitStatus = 1
        /\ installCalls = 1
        /\ \A n \in Skeleton : fs[n] \in {"dir", "rodir"}
        /\ \A n \in Nodes : fsStart[n] # "none" => fs[n] = fsStart[n]

\* The installer exited with status 2 after the run created the tree.
FailurePropagationWitness ==
    /\ rc = 2
    /\ pc = "exited"
    /\ fsStart[<<"src">>] = "none"
    /\ fs[<<"src">>] = "dir"

(***************************************************************************)
(* C5 (phase ordering): whenever the installer is about to be started or   *)
(* has been started, the loop has gone through all 16 entries and each is  *)
(* a directory; a run whose creation loop failed never starts it.          *)
(***************************************************************************)
PhaseOrdering ==
    /\ (pc = "install" \/ installCalls > 0 \/ rc # NoStatus) =>
          /\ i = NumDirs + 1
          /\ \A k \in 1..NumDirs : fs[dirs[k]] \in {"dir", "rodir"}
    /\ (pc = "aborted" /\ i <= NumDirs) => (installCalls = 0 /\ rc = NoStatus)

\* The installer was started in a run that created entries.
PhaseOrderingWitness ==
    /\ installCalls = 1
    /\ run = 1
    /\ fsStart[dirs[NumDirs]] = "none"
    /\ fs[dirs[NumDirs]] = "dir"

(***************************************************************************)
(* C6 (terminal outcomes): a run that has terminated ended in exactly one  *)
(* of three ways - (1) status 0 with the skeleton created and the          *)
(* installer exited 0; (2) a nonzero status by an OSError raised in the    *)
(* creation loop; (3) status 1 after the installer exited nonzero - and    *)
(* the status is 0 exactly when the run fully succeeded.                   *)
(***************************************************************************)
FullSuccess ==
    /\ raised = NoError
    /\ rc = 0
    /\ \A n \in Skeleton : fs[n] \in {"dir", "rodir"}

OutcomeSuccess == exitStatus = 0 /\ FullSuccess

OutcomeCreationError ==
    /\ exitStatus \notin {0, NoStatus}
    /\ raised \in OSErrors
    /\ i <= Len(order)
    /\ installCalls = 0

OutcomeInstallerFailed ==
    /\ exitStatus = 1
    /\ raised = NoError
    /\ rc \notin {0, NoStatus}

TerminalOutcomes ==
    Terminated =>
        /\ Cardinality({ o \in {"success", "creation", "installer"} :
                             \/ o = "success" /\ OutcomeSuccess
                             \/ o = "creation" /\ OutcomeCreationError
                             \/ o = "installer" /\ OutcomeInstallerFailed }) = 1
        /\ exitStatus = 0 <=> FullSuccess

(***************************************************************************)
(* C7 (order independence): when the creation loop over a permutation of   *)
(* the list has succeeded, the loop over the list in its original order,   *)
(* from the same initial tree, succeeds too and ends with the same tree.   *)
(***************************************************************************)
OrderIndependence ==
    pc = "install" =>
        LET r == ensure_structure(fsStart, dirs, umask)
        IN  r.err = NoError /\ r.fs = fs

\* The loop over the reversed list succeeded on a tree where tests existed.
OrderIndependenceWitness ==
    /\ pc = "install"
    /\ order = Stride(NumDirs)
    /\ order # dirs
    /\ fsStart[<<"tests">>] = "dir"
    /\ fsStart[<<"src">>] = "none"

(***************************************************************************)
(* C8 (frame of the creation phase): a creation loop that started on an    *)
(* empty working directory and succeeded leaves exactly the skeleton, as   *)
(* directories, and nothing else; and no step of the script before the     *)
(* installer is started turns a missing path into a regular file or        *)
(* changes or removes a path that exists.                                  *)
(***************************************************************************)
FrameAfterCreation ==
    (pc = "install" /\ EmptyTree(fsStart)) =>
        \A n \in Nodes \ {Cwd} :
            IF n \in Skeleton THEN fs[n] \in {"dir", "rodir"} ELSE fs[n] = "none"

FrameOfStep ==
    pc \in {"start", "loop"} =>
        \A n \in Nodes :
            /\ fs[n] # "none" => fs'[n] = fs[n]
            /\ fs[n] = "none" => fs'[n] \in {"none", "dir", "rodir"}

FrameOfCreation == [](FrameAfterCreation) /\ [][FrameOfStep]_vars

\* The loop succeeded on an empty working directory.
FrameOfCreationWitness ==
    /\ pc = "install"
    /\ EmptyTree(fsStart)
    /\ fsStart[Cwd] = "dir"
    /\ Cardinality({ n \in Nodes : fs[n] = "dir" }) = Cardinality(Skeleton) + 1

(***************************************************************************)
(* C9 (progress reporting): the 'Created' lines printed so far are the     *)
(* first i - 1 entries of the list, in list order, each an existing        *)
(* directory; after the loop they are the whole list, once each; the       *)
(* entry at which the loop failed has no line.                             *)
(***************************************************************************)
CreatedLines == SelectSeq(out, LAMBDA l : l.kind = "Created")

ProgressReporting ==
    /\ Len(CreatedLines) = i - 1
    /\ \A k \in 1..Len(CreatedLines) :
          /\ CreatedLines[k].path = order[k]
          /\ fs[order[k]] \in {"dir", "rodir"}
    /\ CreationDone => Len(CreatedLines) = Len(order)
    /\ CreationFailed => \A k \in 1..Len(out) : out[k] # Created(order[i])

\* The loop failed at the 13th entry, below a read-only directory, after
\* printing a line for each of the 12 entries before it.
ProgressReportingWitness ==
    /\ CreationFailed
    /\ i = 13
    /\ Len(CreatedLines) = 12
    /\ fsStart[<<"tests">>] = "rodir"

(***************************************************************************)
(* C10 (no continuation past a failed entry): the loop index never passes  *)
(* an entry that is not a directory; a run whose creation loop failed at   *)
(* entry i ended with an uncaught OSError and a nonzero status, never      *)
(* started the installer, and left the tree exactly the initial tree plus  *)
(* the first i - 1 entries and their ancestors, and possibly ancestors of  *)
(* entry i made before its creation failed.                                *)
(***************************************************************************)
NoContinuation ==
    /\ \A k \in 1..(i - 1) : fs[order[k]] \in {"dir", "rodir"}
    /\ CreationFailed =>
          /\ i <= Len(order)
          /\ raised \in OSErrors
          /\ exitStatus \notin {0, NoStatus}
          /\ rc = NoStatus
          /\ LET before == WithDirs(fsStart, { order[k] : k \in 1..(i - 1) }, umask)
             IN  \A n \in Nodes :
                     \/ fs[n] = before[n]
                     \/ /\ before[n] = "none"
                        /\ fs[n] = umask
                        /\ IsPrefix(n, order[i]) /\ n # order[i]

\* The loop failed at an entry in the middle of the list: entries before it
\* were created, entries after it were not.
NoContinuationWitness ==
    /\ CreationFailed
    /\ i = 10
    /\ fsStart[<<"src", "lib">>] = "none"
    /\ fs[<<"src", "lib", "openai">>] = "dir"
    /\ fs[<<"src", "utils">>] = "none"
    /\ fs[<<"public">>] = "none"

====
